---- MODULE Spec2Model ----
(***************************************************************************)
(* Model of flagging_site/app.py: the application factory create_app and   *)
(* its helpers update_config_from_vault, register_blueprints_from_module   *)
(* and add_swagger_plugin_to_app.                                          *)
(*                                                                         *)
(* One behaviour of the model is one call of create_app.  The arguments    *)
(* of the call and the surroundings it reads (FLASK_ENV, the attributes of *)
(* the configuration object, the contents of the blueprints package) are   *)
(* chosen in Init; the outcome of get_keys() is chosen when it is called.  *)
(***************************************************************************)
EXTENDS Integers, Sequences, FiniteSets, TLC

(***************************************************************************)
(* Bounds                                                                  *)
(***************************************************************************)
\* longest explicit BLUEPRINTS list that is enumerated
MaxListLen == 2

(***************************************************************************)
(* Python values                                                           *)
(***************************************************************************)
None == [tag |-> "None"]
\* a key that is not in a mapping / an attribute an object does not have
Absent == [tag |-> "absent"]
Str(s) == [tag |-> "str", val |-> s]
List(q) == [tag |-> "list", items |-> q]
Dict(f) == [tag |-> "dict", items |-> f]
NoExc == "none"

\* Python truth value of what `app.config.get(key)` returns
Truthy(v) ==
    CASE v.tag = "absent" -> FALSE
      [] v.tag = "None" -> FALSE
      [] v.tag = "str" -> v.val # ""
      [] v.tag = "list" -> Len(v.items) > 0
      [] v.tag = "dict" -> DOMAIN v.items # {}

(***************************************************************************)
(* The surroundings of the call                                            *)
(***************************************************************************)
Envs == {"production", "development", "testing"}

ConfigNames == {"ProductionConfig", "DevelopmentConfig", "TestingConfig"}

\* attribute names a blueprints package may have, in the order dir() lists
\* them (dir() sorts; "_" sorts before the lower-case letters)
DirOrder == <<"_hidden", "api", "flagging">>

AttrNames == {DirOrder[i] : i \in 1..Len(DirOrder)}

\* str.startswith('_')
StartsWithUnderscore(name) == name \in {"_hidden"}

\* a module: the attributes it has and which of them expose `bp`
Modules == {[attrs |-> a, bps |-> b] : a \in SUBSET AttrNames, b \in SUBSET AttrNames}

ValidModules == {m \in Modules : m.bps \subseteq m.attrs}

RECURSIVE SeqsUpTo(_, _)
SeqsUpTo(S, n) ==
    IF n = 0 THEN {<<>>}
    ELSE LET shorter == SeqsUpTo(S, n - 1)
         IN shorter \cup {Append(q, x) : q \in {p \in shorter : Len(p) = n - 1}, x \in S}

\* values a configuration object may carry in its BLUEPRINTS attribute
BlueprintSettings == {Absent, None} \cup {List(q) : q \in SeqsUpTo(AttrNames, MaxListLen)}

\* values a configuration object may carry in its SECRET_KEY attribute
SecretSettings == {Absent, Str("profile-secret")}

\* what get_keys() may do: raise, or return a bundle
Bundles == {
    Dict([flask |-> Dict([secret_key |-> Str("vault-secret-1")])]),
    Dict([flask |-> Dict([secret_key |-> Str("vault-secret-2")]),
          mapbox |-> Dict([token |-> Str("t")])]),
    Dict([mapbox |-> Dict([token |-> Str("t")])]),
    Dict([flask |-> Dict([debug |-> Str("0")])]) }

VaultOutcomes ==
    {[kind |-> "raise", exc |-> x, val |-> None] : x \in {"RuntimeError", "KeyError"}}
    \cup {[kind |-> "return", exc |-> NoExc, val |-> b] : b \in Bundles}

(***************************************************************************)
(* State                                                                   *)
(***************************************************************************)
VARIABLES
    pc,             \* position of create_app
    config,         \* the `config` argument: None or a configuration object
    env,            \* app.env (FLASK_ENV)
    classAttrs,     \* upper-case attributes of the configuration object loaded
    module,         \* the blueprints package
    loaded,         \* the object handed to app.config.from_object
    appConfig,      \* app.config
    keysOutcome,    \* what get_keys() did in this call
    blueprint_list, \* local of register_blueprints_from_module
    idx,            \* position of its loop in blueprint_list
    registered,     \* blueprints registered on the app, in order
    swagger,        \* Swagger(app, ...) has been attached
    warnings,       \* lines printed
    result,         \* how create_app ended
    trace           \* steps of create_app taken so far, in order

vars == <<pc, config, env, classAttrs, module, loaded, appConfig, keysOutcome,
          blueprint_list, idx, registered, swagger, warnings, result, trace>>

inputs == <<config, env, classAttrs, module>>

NoOutcome == [kind |-> "none", exc |-> NoExc, val |-> None]
NoResult == [kind |-> "none", exc |-> NoExc]

Init ==
    /\ pc = "Construct"
    /\ config \in {None} \cup {Str(n) : n \in ConfigNames}
    /\ env \in Envs
    /\ classAttrs \in [SECRET_KEY : SecretSettings, BLUEPRINTS : BlueprintSettings]
    /\ module \in ValidModules
    /\ loaded = Absent
    /\ appConfig = Absent
    /\ keysOutcome = NoOutcome
    /\ blueprint_list = <<>>
    /\ idx = 1
    /\ registered = <<>>
    /\ swagger = FALSE
    /\ warnings = <<>>
    /\ result = NoResult
    /\ trace = <<>>

(***************************************************************************)
(* Helpers of create_app                                                   *)
(***************************************************************************)
\* config.get_config_from_env: the default profile of an environment
get_config_from_env(e) ==
    CASE e = "production" -> Str("ProductionConfig")
      [] e = "development" -> Str("DevelopmentConfig")
      [] e = "testing" -> Str("TestingConfig")

\* ResolveConfig with the test on `config` lost: the environment always decides
ResolveConfig_always_env(c, e) == get_config_from_env(e)

\* lines 28-30: the object that is handed to from_object
ResolveConfig(c, e) == IF ~Truthy(c) THEN get_config_from_env(e) ELSE c

\* app.config right after Flask(__name__): SECRET_KEY defaults to None, the
\* other slots this module writes are not there yet
DefaultConfig ==
    [SECRET_KEY |-> None, BLUEPRINTS |-> Absent, KEYS |-> Absent, SWAGGER |-> Absent]

\* app.config.from_object: every attribute the object has overwrites the slot
from_object(cfg, attrs) ==
    [k \in DOMAIN cfg |->
        IF k \in DOMAIN attrs /\ attrs[k] # Absent THEN attrs[k] ELSE cfg[k]]

\* d[k] on a mapping: the value, or KeyError
HasKey(d, k) == d.tag = "dict" /\ k \in DOMAIN d.items

\* update_config_from_vault without the test of app.env: a vault failure only warns
update_config_from_vault_never_fatal(cfg, e, outcome) ==
    IF outcome.kind = "raise" /\ outcome.exc \in {"RuntimeError", "KeyError"}
    THEN [config |-> [cfg EXCEPT !.KEYS = None, !.SECRET_KEY = None],
          raised |-> NoExc, warned |-> TRUE]
    ELSE LET cfg1 == [cfg EXCEPT !.KEYS = outcome.val]
         IN IF HasKey(cfg1.KEYS, "flask") /\ HasKey(cfg1.KEYS.items.flask, "secret_key")
            THEN [config |-> [cfg1 EXCEPT !.SECRET_KEY = cfg1.KEYS.items.flask.items.secret_key],
                  raised |-> NoExc, warned |-> FALSE]
            ELSE [config |-> cfg1, raised |-> "KeyError", warned |-> FALSE]

\* update_config_from_vault without line 80: the fallback leaves SECRET_KEY alone
update_config_from_vault_keeps_secret(cfg, e, outcome) ==
    IF outcome.kind = "raise" /\ outcome.exc \in {"RuntimeError", "KeyError"}
    THEN IF e = "production"
         THEN [config |-> cfg, raised |-> "RuntimeError", warned |-> FALSE]
         ELSE [config |-> [cfg EXCEPT !.KEYS = None],
               raised |-> NoExc, warned |-> TRUE]
    ELSE LET cfg1 == [cfg EXCEPT !.KEYS = outcome.val]
         IN IF HasKey(cfg1.KEYS, "flask") /\ HasKey(cfg1.KEYS.items.flask, "secret_key")
            THEN [config |-> [cfg1 EXCEPT !.SECRET_KEY = cfg1.KEYS.items.flask.items.secret_key],
                  raised |-> NoExc, warned |-> FALSE]
            ELSE [config |-> cfg1, raised |-> "KeyError", warned |-> FALSE]

\* update_config_from_vault without line 82: SECRET_KEY is not taken from the bundle
update_config_from_vault_no_propagation(cfg, e, outcome) ==
    IF outcome.kind = "raise" /\ outcome.exc \in {"RuntimeError", "KeyError"}
    THEN IF e = "production"
         THEN [config |-> cfg, raised |-> "RuntimeError", warned |-> FALSE]
         ELSE [config |-> [cfg EXCEPT !.KEYS = None, !.SECRET_KEY = None],
               raised |-> NoExc, warned |-> TRUE]
    ELSE [config |-> [cfg EXCEPT !.KEYS = outcome.val], raised |-> NoExc, warned |-> FALSE]

\* update_config_from_vault with line 82 moved into the try block: the
\* KeyError of the lookup is handled like a vault failure
update_config_from_vault_lookup_in_try(cfg, e, outcome) ==
    LET cfg1 == [cfg EXCEPT !.KEYS = outcome.val]
        found == /\ outcome.kind = "return"
                 /\ HasKey(cfg1.KEYS, "flask")
                 /\ HasKey(cfg1.KEYS.items.flask, "secret_key")
    IN IF found
       THEN [config |-> [cfg1 EXCEPT !.SECRET_KEY = cfg1.KEYS.items.flask.items.secret_key],
             raised |-> NoExc, warned |-> FALSE]
       ELSE IF e = "production"
            THEN [config |-> IF outcome.kind = "return" THEN cfg1 ELSE cfg,
                  raised |-> "RuntimeError", warned |-> FALSE]
            ELSE [config |-> [cfg EXCEPT !.KEYS = None, !.SECRET_KEY = None],
                  raised |-> NoExc, warned |-> TRUE]

\* update_config_from_vault(app), given what get_keys() does.
\* Yields the new app.config, the exception that leaves the function
\* and whether the warning was printed.
update_config_from_vault(cfg, e, outcome) ==
    IF outcome.kind = "raise" /\ outcome.exc \in {"RuntimeError", "KeyError"}
    THEN IF e = "production"
         THEN [config |-> cfg, raised |-> "RuntimeError", warned |-> FALSE]
         ELSE [config |-> [cfg EXCEPT !.KEYS = None, !.SECRET_KEY = None],
               raised |-> NoExc, warned |-> TRUE]
    ELSE LET cfg1 == [cfg EXCEPT !.KEYS = outcome.val]
         IN IF HasKey(cfg1.KEYS, "flask") /\ HasKey(cfg1.KEYS.items.flask, "secret_key")
            THEN [config |-> [cfg1 EXCEPT !.SECRET_KEY = cfg1.KEYS.items.flask.items.secret_key],
                  raised |-> NoExc, warned |-> FALSE]
            ELSE [config |-> cfg1, raised |-> "KeyError", warned |-> FALSE]

\* dir(module): the names of its attributes, sorted
Dir(m) == SelectSeq(DirOrder, LAMBDA n : n \in m.attrs)

\* BlueprintList that ignores the BLUEPRINTS setting
BlueprintList_ignores_setting(cfg, m) ==
    SelectSeq(Dir(m), LAMBDA x : ~StartsWithUnderscore(x))

\* BlueprintList without the filter on the leading underscore
BlueprintList_no_filter(cfg, m) ==
    IF Truthy(cfg.BLUEPRINTS) THEN cfg.BLUEPRINTS.items ELSE Dir(m)

\* BlueprintList that tests whether BLUEPRINTS is a list instead of its truth value
BlueprintList_tests_presence(cfg, m) ==
    IF cfg.BLUEPRINTS.tag = "list"
    THEN cfg.BLUEPRINTS.items
    ELSE SelectSeq(Dir(m), LAMBDA x : ~StartsWithUnderscore(x))

\* lines 139-142: the names register_blueprints_from_module iterates over
BlueprintList(cfg, m) ==
    IF Truthy(cfg.BLUEPRINTS)
    THEN cfg.BLUEPRINTS.items
    ELSE SelectSeq(Dir(m), LAMBDA x : ~StartsWithUnderscore(x))

\* getattr(module, submodule).bp succeeds
HasBp(m, name) == name \in m.attrs /\ name \in m.bps

\* the bp object of a submodule
Bp(name) == [bp |-> name]

VaultMsg == "Warning: Unable to load the vault; bad password provided."

(***************************************************************************)
(* Steps of create_app                                                     *)
(***************************************************************************)
\* line 24
Construct ==
    /\ pc = "Construct"
    /\ appConfig' = DefaultConfig
    /\ trace' = Append(trace, "Construct")
    /\ pc' = "Configure"
    /\ UNCHANGED <<inputs, loaded, keysOutcome, blueprint_list, idx, registered,
                   swagger, warnings, result>>

\* Configure with the call of update_config_from_vault (line 35) left out
Configure_skips_vault ==
    /\ pc = "Configure"
    /\ loaded' = ResolveConfig(config, env)
    /\ appConfig' = from_object(appConfig, classAttrs)
    /\ trace' = Append(trace, "Configure")
    /\ pc' = "RegisterRoutes"
    /\ UNCHANGED <<inputs, keysOutcome, blueprint_list, idx, registered,
                   swagger, warnings, result>>

\* lines 28-32
Configure ==
    /\ pc = "Configure"
    /\ loaded' = ResolveConfig(config, env)
    /\ appConfig' = from_object(appConfig, classAttrs)
    /\ trace' = Append(trace, "Configure")
    /\ pc' = "LoadSecrets"
    /\ UNCHANGED <<inputs, keysOutcome, blueprint_list, idx, registered,
                   swagger, warnings, result>>

\* line 35
LoadSecrets ==
    /\ pc = "LoadSecrets"
    /\ \E outcome \in VaultOutcomes :
         LET r == update_config_from_vault(appConfig, env, outcome)
         IN /\ keysOutcome' = outcome
            /\ appConfig' = r.config
            /\ warnings' = IF r.warned THEN Append(warnings, VaultMsg) ELSE warnings
            /\ IF r.raised # NoExc
               THEN /\ pc' = "Failed"
                    /\ result' = [kind |-> "raise", exc |-> r.raised]
               ELSE /\ pc' = "RegisterRoutes"
                    /\ UNCHANGED result
    /\ trace' = Append(trace, "LoadSecrets")
    /\ UNCHANGED <<inputs, loaded, blueprint_list, idx, registered, swagger>>

\* lines 42-43 and 139-142: enter register_blueprints_from_module
RegisterRoutes ==
    /\ pc = "RegisterRoutes"
    /\ blueprint_list' = BlueprintList(appConfig, module)
    /\ idx' = 1
    /\ trace' = Append(trace, "RegisterRoutes")
    /\ pc' = "Registering"
    /\ UNCHANGED <<inputs, loaded, appConfig, keysOutcome, registered, swagger,
                   warnings, result>>

\* RegisterBlueprint that skips a submodule without bp instead of failing
RegisterBlueprint_skips_missing ==
    /\ pc = "Registering"
    /\ idx <= Len(blueprint_list)
    /\ IF HasBp(module, blueprint_list[idx])
       THEN /\ registered' = Append(registered, Bp(blueprint_list[idx]))
            /\ trace' = Append(trace, "register_blueprint")
       ELSE UNCHANGED <<registered, trace>>
    /\ idx' = idx + 1
    /\ UNCHANGED <<inputs, loaded, appConfig, keysOutcome, blueprint_list, swagger,
                   warnings, pc, result>>

\* lines 143-144: one iteration of the loop
RegisterBlueprint ==
    /\ pc = "Registering"
    /\ idx <= Len(blueprint_list)
    /\ IF HasBp(module, blueprint_list[idx])
       THEN /\ registered' = Append(registered, Bp(blueprint_list[idx]))
            /\ idx' = idx + 1
            /\ trace' = Append(trace, "register_blueprint")
            /\ UNCHANGED <<pc, result>>
       ELSE /\ pc' = "Failed"
            /\ result' = [kind |-> "raise", exc |-> "AttributeError"]
            /\ UNCHANGED <<registered, idx, trace>>
    /\ UNCHANGED <<inputs, loaded, appConfig, keysOutcome, blueprint_list, swagger,
                   warnings>>

\* line 143: the loop is exhausted, register_blueprints_from_module returns
RegisterDone ==
    /\ pc = "Registering"
    /\ idx > Len(blueprint_list)
    /\ pc' = "AttachDocs"
    /\ UNCHANGED <<inputs, loaded, appConfig, keysOutcome, blueprint_list, idx,
                   registered, swagger, warnings, result, trace>>

\* line 47
AttachDocs ==
    /\ pc = "AttachDocs"
    /\ appConfig' = [appConfig EXCEPT !.SWAGGER = Dict([uiversion |-> Str("3")])]
    /\ swagger' = TRUE
    /\ trace' = Append(trace, "AttachDocs")
    /\ pc' = "Return"
    /\ UNCHANGED <<inputs, loaded, keysOutcome, blueprint_list, idx, registered,
                   warnings, result>>

\* line 54
Return ==
    /\ pc = "Return"
    /\ result' = [kind |-> "app", exc |-> NoExc]
    /\ trace' = Append(trace, "Ready")
    /\ pc' = "Ready"
    /\ UNCHANGED <<inputs, loaded, appConfig, keysOutcome, blueprint_list, idx,
                   registered, swagger, warnings>>

Next ==
    \/ Construct
    \/ Configure
    \/ LoadSecrets
    \/ RegisterRoutes
    \/ RegisterBlueprint
    \/ RegisterDone
    \/ AttachDocs
    \/ Return

Spec == Init /\ [][Next]_vars

(***************************************************************************)
(* Vocabulary of the properties                                            *)
(***************************************************************************)
\* get_keys() raised RuntimeError or KeyError in this call
VaultFailed == keysOutcome.kind = "raise"

\* get_keys() returned a bundle in this call
VaultReturned == keysOutcome.kind = "return"

\* the bundle get_keys() returned has ['flask']['secret_key']
BundleHasSecret ==
    /\ HasKey(keysOutcome.val, "flask")
    /\ HasKey(keysOutcome.val.items.flask, "secret_key")

\* update_config_from_vault has returned normally
SecretsLoaded == pc \in {"RegisterRoutes", "Registering", "AttachDocs", "Return", "Ready"}
                 \/ (pc = "Failed" /\ result.exc = "AttributeError")

\* register_blueprints_from_module has been entered
RegistrationEntered == pc \in {"Registering", "AttachDocs", "Return", "Ready"}
                       \/ (pc = "Failed" /\ result.exc = "AttributeError")

\* register_blueprints_from_module has returned normally
RegistrationReturned == pc \in {"AttachDocs", "Return", "Ready"}

\* the configuration object enumerates a non-empty BLUEPRINTS list
ExplicitList ==
    classAttrs.BLUEPRINTS.tag = "list" /\ classAttrs.BLUEPRINTS.items # <<>>

\* the public attributes of the blueprints package, as dir() orders them
PublicAttrs ==
    SelectSeq(DirOrder, LAMBDA n : n \in module.attrs /\ ~StartsWithUnderscore(n))

\* how often the bp of a submodule has been registered
TimesRegistered(name) ==
    Cardinality({i \in 1..Len(registered) : registered[i] = Bp(name)})

\* registered is the bp objects of the first Len(registered) names of q
RegisteredIsPrefixOf(q) ==
    /\ Len(registered) <= Len(q)
    /\ \A i \in 1..Len(registered) : registered[i] = Bp(q[i])

\* the position of the first name of blueprint_list without a bp; 0 if none
FirstWithoutBp ==
    LET bad == {i \in 1..Len(blueprint_list) : ~HasBp(module, blueprint_list[i])}
    IN IF bad = {} THEN 0 ELSE CHOOSE i \in bad : \A j \in bad : i <= j

Rank(ev) ==
    CASE ev = "Construct" -> 1
      [] ev = "Configure" -> 2
      [] ev = "LoadSecrets" -> 3
      [] ev = "RegisterRoutes" -> 4
      [] ev = "register_blueprint" -> 5
      [] ev = "AttachDocs" -> 6
      [] ev = "Ready" -> 7

(***************************************************************************)
(* Properties                                                              *)
(***************************************************************************)
\* C1: when get_keys raises RuntimeError or KeyError and app.env is
\* 'production', create_app ends by raising RuntimeError: no application is
\* returned, register_blueprints_from_module is never entered, no blueprint
\* is registered and the documentation plugin is not attached.
C1_ProductionVaultFailureIsFatal ==
    (VaultFailed /\ env = "production") =>
        /\ pc = "Failed"
        /\ result = [kind |-> "raise", exc |-> "RuntimeError"]
        /\ registered = <<>>
        /\ ~swagger
        /\ appConfig.SWAGGER = Absent
        /\ \A i \in 1..Len(trace) : Rank(trace[i]) <= 3

C1_Witness ==
    /\ VaultFailed
    /\ keysOutcome.exc = "KeyError"
    /\ env = "production"
    /\ pc = "Failed"

\* C2: when get_keys raises RuntimeError or KeyError and app.env is not
\* 'production', the vault step does not abort create_app: the warning is
\* printed once, KEYS and SECRET_KEY are both None from then on (whatever
\* SECRET_KEY the configuration object supplied), and create_app goes on to
\* return the application with these slots; the only thing that can still
\* stop it is the AttributeError of a submodule without bp.
C2_DevVaultFailureIsDegraded ==
    (VaultFailed /\ env # "production") =>
        /\ SecretsLoaded
        /\ result.exc \in {NoExc, "AttributeError"}
        /\ appConfig.KEYS = None
        /\ appConfig.SECRET_KEY = None
        /\ warnings = <<VaultMsg>>
        /\ (pc = "Ready" => result.kind = "app")
        /\ (FirstWithoutBp = 0 => pc # "Failed")

C2_Witness ==
    /\ VaultFailed
    /\ env = "development"
    /\ classAttrs.SECRET_KEY = Str("profile-secret")
    /\ result.kind = "app"
    /\ appConfig.SECRET_KEY = None

\* C3: when get_keys returns a bundle, then in every environment, from the
\* return of update_config_from_vault up to and including the application
\* create_app returns, KEYS is that bundle and SECRET_KEY is the bundle's
\* ['flask']['secret_key'].
C3_SecretKeyFromBundle ==
    (VaultReturned /\ (SecretsLoaded \/ result.kind = "app")) =>
        /\ appConfig.KEYS = keysOutcome.val
        /\ BundleHasSecret
        /\ appConfig.SECRET_KEY = keysOutcome.val.items.flask.items.secret_key

C3_Witness ==
    /\ VaultReturned
    /\ result.kind = "app"
    /\ env = "production"
    /\ classAttrs.SECRET_KEY = Str("profile-secret")
    /\ appConfig.SECRET_KEY = Str("vault-secret-2")

\* C4: the steps of create_app occur in the order Construct, Configure,
\* Load Secrets, Register Routes, Attach Docs, Ready; each is taken at most
\* once and none is skipped, so configuration and secret loading are over
\* before the first blueprint is registered and every blueprint
\* registration precedes the attachment of the documentation plugin.
C4_LinearStartup ==
    /\ \A i, j \in 1..Len(trace) :
          i < j => /\ Rank(trace[i]) <= Rank(trace[j])
                   /\ (Rank(trace[i]) = Rank(trace[j]) => trace[i] = "register_blueprint")
    /\ \A j \in 1..Len(trace) :
          \A r \in (1..(Rank(trace[j]) - 1)) \ {5} :
              \E i \in 1..(j - 1) : Rank(trace[i]) = r
    /\ Len(registered) = Cardinality({i \in 1..Len(trace) : trace[i] = "register_blueprint"})
    /\ swagger = (\E i \in 1..Len(trace) : trace[i] = "AttachDocs")
    /\ (result.kind = "app") = (\E i \in 1..Len(trace) : trace[i] = "Ready")
    /\ (appConfig # Absent /\ appConfig.KEYS # Absent) =>
          (\E i \in 1..Len(trace) : trace[i] = "LoadSecrets")

C4_Witness ==
    /\ pc = "Ready"
    /\ Len(registered) = 2
    /\ trace = <<"Construct", "Configure", "LoadSecrets", "RegisterRoutes",
                 "register_blueprint", "register_blueprint", "AttachDocs", "Ready">>

\* C5: when BLUEPRINTS enumerates a list of submodule names, the names
\* iterated are exactly that list in its order; what is registered is at
\* every moment the bp objects of a prefix of the list, and all of the list
\* once register_blueprints_from_module has returned.  No other submodule
\* of the module is registered.
C5_ExplicitListExactly ==
    (ExplicitList /\ RegistrationEntered) =>
        /\ blueprint_list = classAttrs.BLUEPRINTS.items
        /\ RegisteredIsPrefixOf(classAttrs.BLUEPRINTS.items)
        /\ (RegistrationReturned => Len(registered) = Len(classAttrs.BLUEPRINTS.items))

C5_Witness ==
    /\ ExplicitList
    /\ pc = "Ready"
    /\ classAttrs.BLUEPRINTS.items = <<"flagging", "_hidden">>
    /\ registered = <<Bp("flagging"), Bp("_hidden")>>
    /\ HasBp(module, "api")

\* C6: without an explicit BLUEPRINTS list no underscore-prefixed attribute
\* is ever registered and nothing is registered twice; once
\* register_blueprints_from_module has returned, every public attribute of
\* the module that exposes bp has been registered exactly once.
C6_DiscoveryRegistersPublicOnce ==
    (~ExplicitList) =>
        /\ \A n \in AttrNames :
              /\ TimesRegistered(n) <= 1
              /\ (StartsWithUnderscore(n) \/ ~HasBp(module, n)) => TimesRegistered(n) = 0
        /\ RegistrationReturned =>
              \A n \in AttrNames :
                  (HasBp(module, n) /\ ~StartsWithUnderscore(n)) => TimesRegistered(n) = 1

C6_Witness ==
    /\ ~ExplicitList
    /\ pc = "Ready"
    /\ module.bps = AttrNames
    /\ registered = <<Bp("api"), Bp("flagging")>>

\* C7: if a listed or discovered submodule has no bp, registration stops at
\* the first such submodule with an AttributeError that leaves create_app:
\* the submodules before it are registered, it is not skipped, no later
\* submodule is registered, the documentation plugin is never attached and
\* no application is returned.
C7_MissingBpAborts ==
    (RegistrationEntered /\ FirstWithoutBp # 0) =>
        /\ idx <= FirstWithoutBp
        /\ Len(registered) = idx - 1
        /\ \A i \in 1..Len(registered) : registered[i] = Bp(blueprint_list[i])
        /\ ~RegistrationReturned
        /\ ~swagger
        /\ result.kind # "app"
        /\ pc = "Failed" =>
              /\ result = [kind |-> "raise", exc |-> "AttributeError"]
              /\ idx = FirstWithoutBp

C7_Witness ==
    /\ pc = "Failed"
    /\ result.exc = "AttributeError"
    /\ blueprint_list = <<"api", "flagging">>
    /\ ~HasBp(module, "api")
    /\ HasBp(module, "flagging")
    /\ registered = <<>>

\* C8: an explicit configuration is the one that is loaded, whatever the
\* environment; without one the configuration loaded is
\* get_config_from_env(app.env).
C8_ConfigSelection ==
    (loaded # Absent \/ pc \notin {"Construct", "Configure"}) =>
        /\ config # None => loaded = config
        /\ config = None => loaded = get_config_from_env(env)

C8_Witness ==
    /\ pc = "Ready"
    /\ config = Str("TestingConfig")
    /\ env = "production"
    /\ loaded = Str("TestingConfig")

\* C9: when get_keys returns a bundle without ['flask']['secret_key'], the
\* KeyError of the lookup leaves create_app in every environment: KEYS is
\* already the bundle, SECRET_KEY is still what the configuration gave, no
\* warning is printed, nothing is registered or attached.
C9_LookupKeyErrorEscapes ==
    (VaultReturned /\ ~BundleHasSecret) =>
        /\ pc = "Failed"
        /\ result = [kind |-> "raise", exc |-> "KeyError"]
        /\ warnings = <<>>
        /\ appConfig.KEYS = keysOutcome.val
        /\ appConfig.SECRET_KEY = from_object(DefaultConfig, classAttrs).SECRET_KEY
        /\ registered = <<>>
        /\ ~swagger

C9_Witness ==
    /\ VaultReturned
    /\ ~HasKey(keysOutcome.val, "flask")
    /\ env = "development"
    /\ pc = "Failed"

====
